---- MODULE Spec2Model ----
(***************************************************************************)
(* Model of the scene1 session of spaceExploration: the parameter store,   *)
(* the keyboard input record, the glider controller (updateGlider) and the *)
(* ray-pick selection state machine of the frame callback                  *)
(* (buildCanvas.beforeRender).                                             *)
(*                                                                         *)
(* Numbers.  Positions and distances are kept in half world units, so that *)
(* extendsX * 1.05 = 52.5 is the integer 105.  Speeds are world units per  *)
(* second, frame times are whole seconds.  The height position.y is kept   *)
(* in tenths of a unit (pitchRate 1.2 is 12).  The stored orientation is a *)
(* rotation about the world Y axis (yaw is the only rotation the code      *)
(* applies); the model keeps it as a number of quarter turns and a frame    *)
(* with yaw input turns it by yaw * dt quarter turns.                       *)
(*                                                                         *)
(* Strings the code parses (mesh names) are sequences of one-character     *)
(* strings, so that substring and parseInt are computed as the code does.  *)
(*                                                                         *)
(* Init is the module state after a successful buildCanvas with the host's *)
(* callback registered; InitModule is the module as loaded, from which the *)
(* calls of buildCanvas (suspended at the model load) and disposeEngine     *)
(* are explored.  The cameras are view state that no operation below       *)
(* reads; they are not part of the state.                                   *)
(*                                                                         *)
(* The earlier scene modules are modelled beside it on the registry        *)
(* planets: scene1.ts with its distance-based popup selection and the      *)
(* rotation of the objects (InitScene1), and bab3.ts with the planets on   *)
(* their orbits (InitBab3).  Rotation angles are eighths of a turn, orbit  *)
(* angles quarter turns.                                                   *)
(***************************************************************************)
EXTENDS Integers, Sequences, FiniteSets, TLC

VARIABLES
    inputState,      \* the module-level input record {thrust, roll, yaw, pitch}
    sysParms,        \* the parameter store
    thrown,          \* TRUE iff the last operation ended by throwing an Error
    glider,          \* the glider record: speed, rotationQuat, thrustersOn, mesh
    gm,              \* glider.mesh.position: x and z in half units, y in tenths
    thrusterGlow,    \* emissive state last applied by setThrusters (TRUE = on colour)
    planetSelected,  \* closure variable of buildCanvas: <<>> is null, <<i>> is i
    closest,         \* closestName of the last frame that ran: <<>> is undefined
    rings,           \* the selection-ring meshes of the scene, by owning planet name
    effects,         \* callbacks raised and ring meshes disposed/created by the last step
    pending,         \* history: indexes with an "on" raised and no "off" since
    engine,          \* the module variable engine: <<>> is null, <<e>> is engine e
    engines,         \* the engines created so far: live, render functions, scenes[0]
    builds,          \* the calls of buildCanvas: where each one stands
    listeners,       \* the key listeners registered on the window, in order
    frameNo,         \* history: frames run since the scene was built
    held,            \* history: seconds of thrust held from rest without a break
    ray,             \* history: the camera ray and the hits of the frames' pick
    planets,         \* the registry of the earlier scenes (scene1.ts, bab3.ts)
    popup,           \* scene1.ts: popupVisible and popId (<<>> is null)
    objLog,          \* history: per object, the frames that found it active
    keyLog           \* history: the keys held down and the last event of each axis

vars == <<inputState, sysParms, thrown, glider, gm, thrusterGlow,
          planetSelected, closest, rings, effects, pending,
          engine, engines, builds, listeners, frameNo, held, ray,
          planets, popup, objLog, keyLog>>

\* the engine, its window listeners and the calls of buildCanvas
lifeVars == <<engine, engines, builds, listeners>>

\* the history variables of the frames
frameVars == <<frameNo, held, ray>>

\* the state of the earlier scene modules
sceneVars == <<planets, popup, objLog>>

----------------------------------------------------------------------------
(* Bounds of the model *)

NumObjects == 4      \* objects of the registry, named obj1 .. objN
MaxDt == 1           \* frame times are 0 .. MaxDt seconds
MaxBuilds == 3       \* calls of buildCanvas in one run
MaxFrames == 2       \* frames run per built scene where the builds are explored
MaxHits == 2         \* meshes hit by the camera ray of one frame
MaxNear == 2         \* objects within SHOW_DISTANCE of the camera at a time

(* Program constants *)

extendsX == 50
extendsZ == 30
maxSpeed == 15
accel == 10
decel == 10
posX == -20
posZ == -10
posY == 1
pitchRate == 12      \* 1.2 units per second, in tenths of a unit
bounds == 5
SHOW_DISTANCE == 8

Half(n) == 2 * n
Tenths(n) == 10 * n

Abs(n) == IF n < 0 THEN -n ELSE n
Sign(n) == IF n > 0 THEN 1 ELSE IF n < 0 THEN -1 ELSE 0
Min(a, b) == IF a < b THEN a ELSE b
Max(a, b) == IF a > b THEN a ELSE b

FrameTimes == 0 .. MaxDt

----------------------------------------------------------------------------
(* Strings, substring and parseInt *)

Digits == <<"0", "1", "2", "3", "4", "5", "6", "7", "8", "9">>

IsDigit(c) == \E d \in 1 .. Len(Digits) : Digits[d] = c
DigitValue(c) == (CHOOSE d \in 1 .. Len(Digits) : Digits[d] = c) - 1

\* decimal text of a natural number, as String(n) gives it
RECURSIVE ToChars(_)
ToChars(n) == IF n < 10 THEN <<Digits[n + 1]>>
              ELSE ToChars(n \div 10) \o <<Digits[(n % 10) + 1]>>

\* s.substring(from): the characters of s from 0-based index `from` on
Substring(s, from) == IF from >= Len(s) THEN <<>> ELSE SubSeq(s, from + 1, Len(s))

\* length of the longest prefix of s made of digits
RECURSIVE DigitPrefix(_)
DigitPrefix(s) == IF s = <<>> \/ ~IsDigit(Head(s)) THEN 0
                  ELSE 1 + DigitPrefix(Tail(s))

RECURSIVE DigitsValue(_, _)
DigitsValue(s, acc) == IF s = <<>> THEN acc
                       ELSE DigitsValue(Tail(s), 10 * acc + DigitValue(Head(s)))

\* parseInt(s): an optional sign, then the longest run of digits; NaN when
\* there is no digit.  The result is [nan |-> TRUE] or [nan |-> FALSE, val |-> n].
ParseInt(s) ==
    LET neg == s # <<>> /\ Head(s) = "-"
        body == IF s # <<>> /\ Head(s) \in {"-", "+"} THEN Tail(s) ELSE s
        k == DigitPrefix(body)
    IN  IF k = 0 THEN [nan |-> TRUE, val |-> 0]
        ELSE [nan |-> FALSE,
              val |-> (IF neg THEN -1 ELSE 1) * DigitsValue(SubSeq(body, 1, k), 0)]

----------------------------------------------------------------------------
(* The object registry and the pickable meshes of the scene *)

ObjName(n) == <<"o", "b", "j">> \o ToChars(n)

\* system: the records of objects.json, in file order; createPlanet gives each
\* a sphere mesh of the record's name
system == [i \in 1 .. NumObjects |-> [name |-> ObjName(i), mesh |-> TRUE]]

PosterName == <<"p", "o", "s", "t", "e", "r">>
GroundName == <<"c", "h", "e", "c", "k", "e", "r", "G", "r", "o", "u", "n", "d">>
NoName == <<>>

\* names of the pickable meshes: planets, their poster planes, the ground, and
\* a mesh without a name
MeshNames == {system[i].name : i \in 1 .. NumObjects} \cup {PosterName, GroundName, NoName}

\* camera-to-mesh distances sampled around the two limits of the pick, half units
NearLimit == 1
Distances == {NearLimit, NearLimit + 1, Half(SHOW_DISTANCE), Half(SHOW_DISTANCE) + 1}

\* what the scene's multiPickWithRay yields for the closest hit of a frame
Picks == [hit : {TRUE}, name : MeshNames, dist : Distances]
            \cup {[hit |-> FALSE, name |-> NoName, dist |-> NearLimit]}

\* pickBetweenCameraAndLookAt: the candidate name, or <<>> for undefined
raySelect(p, cutOff) ==
    IF p.hit
    THEN IF p.name = NoName THEN <<>>
         ELSE IF p.dist <= Half(cutOff) /\ p.dist > NearLimit THEN p.name
         ELSE <<>>
    ELSE <<>>

\* the camera ray: its length is 0 when the camera sits on its target
RayLengths == {0, 1}

\* what multiPickWithRay yields: the hits in the order of the ray, closest
\* first, each with the name of its mesh and the camera-to-mesh distance
HitSamples ==
    [hit : {TRUE}, name : {ObjName(2), ObjName(3), PosterName, NoName},
     dist : {NearLimit, Half(SHOW_DISTANCE), Half(SHOW_DISTANCE) + 1}]
        \cup {[hit |-> FALSE, name |-> NoName, dist |-> NearLimit]}

HitLists == UNION {[1 .. n -> HitSamples] : n \in 0 .. MaxHits}

\* hits.find(h => h.hit) that goes on to the first hit in range
Look_FirstInRange(length, hits) ==
    LET ks == {k \in 1 .. Len(hits) :
                 hits[k].hit /\ raySelect(hits[k], SHOW_DISTANCE) # <<>>}
    IN  IF length = 0 \/ ks = {}
        THEN [hit |-> FALSE, name |-> NoName, dist |-> NearLimit]
        ELSE hits[CHOOSE k \in ks : \A j \in ks : k <= j]

\* the zero-length return and hits.find(h => h.hit): the hit that
\* pickBetweenCameraAndLookAt goes on with, hit = FALSE when there is none
Look(length, hits) ==
    LET ks == {k \in 1 .. Len(hits) : hits[k].hit}
    IN  IF length = 0 \/ ks = {}
        THEN [hit |-> FALSE, name |-> NoName, dist |-> NearLimit]
        ELSE hits[CHOOSE k \in ks : \A j \in ks : k <= j]

----------------------------------------------------------------------------
(* The parameter store *)

\* the keys of the SceneParams interface
SceneParamKeys == {"renderLoop", "cameraDistance", "cameraAngle", "shipSpeed",
                   "gravity", "buoyance", "cluster", "camMode", "thrustersOn"}

\* the initial value of sysParms: its own properties
sysParmsInit == [renderLoop |-> FALSE, gravity |-> 1, buoyance |-> 1, cluster |-> 1,
                 camMode |-> "free", thrustersOn |-> FALSE]

\* values a caller may pass for a key, by the key's declared type
ParamValues(key) ==
    CASE key \in {"renderLoop", "thrustersOn"} -> BOOLEAN
      [] key = "camMode" -> {"free", "follow"}
      [] OTHER -> {1, 2}

\* setParams without the hasOwnProperty test: the assignment adds the key
setParams_NoCheck(key, value) ==
    /\ sysParms' = [k \in DOMAIN sysParms \cup {key} |->
                       IF k = key THEN value ELSE sysParms[k]]
    /\ thrown' = FALSE
    /\ effects' = <<>>
    /\ UNCHANGED <<inputState, glider, gm, thrusterGlow, planetSelected, closest, rings, pending>>
    /\ UNCHANGED <<lifeVars, frameVars, sceneVars, keyLog>>

\* setParams(key, value)
setParams(key, value) ==
    /\ IF key \in DOMAIN sysParms
       THEN /\ sysParms' = [sysParms EXCEPT ![key] = value]
            /\ thrown' = FALSE
       ELSE /\ thrown' = TRUE
            /\ UNCHANGED sysParms
    /\ effects' = <<>>
    /\ UNCHANGED <<inputState, glider, gm, thrusterGlow, planetSelected, closest, rings, pending>>
    /\ UNCHANGED <<lifeVars, frameVars, sceneVars, keyLog>>

----------------------------------------------------------------------------
(* Keyboard handlers *)

KeyCodes == {"KeyQ", "KeyE", "KeyA", "KeyD", "KeyW", "KeyS"}

\* the log of the keyboard: no key is down, no axis has had an event
keyLogInit == [down |-> {}, last |-> [a \in {"yaw", "pitch", "thrust"} |-> <<>>]]

\* the axis that the handlers switch on a key code for
AxisOf(code) == CASE code \in {"KeyQ", "KeyE"} -> "yaw"
                  [] code \in {"KeyA", "KeyD"} -> "pitch"
                  [] OTHER -> "thrust"

\* the log after the window dispatched a KeyboardEvent of this type and code
Logged(log, type, code) ==
    [down |-> IF type = "keydown" THEN log.down \cup {code} ELSE log.down \ {code},
     last |-> [log.last EXCEPT ![AxisOf(code)] = <<[type |-> type, code |-> code]>>]]

\* a keydown handler that counts the presses of a key up
onKeyDown_Adds(code) ==
    /\ inputState' =
         CASE code = "KeyQ" -> [inputState EXCEPT !.yaw = @ + 1]
           [] code = "KeyE" -> [inputState EXCEPT !.yaw = @ - 1]
           [] code = "KeyA" -> [inputState EXCEPT !.pitch = @ + 1]
           [] code = "KeyD" -> [inputState EXCEPT !.pitch = @ - 1]
           [] code = "KeyW" -> [inputState EXCEPT !.thrust = @ + 1]
           [] code = "KeyS" -> [inputState EXCEPT !.thrust = @ - 1]
           [] OTHER -> inputState
    /\ thrown' = FALSE
    /\ effects' = <<>>
    /\ UNCHANGED <<sysParms, glider, gm, thrusterGlow, planetSelected, closest, rings, pending>>
    /\ UNCHANGED <<lifeVars, frameVars, sceneVars>>

onKeyDown(code) ==
    /\ inputState' =
         CASE code = "KeyQ" -> [inputState EXCEPT !.yaw = 1]
           [] code = "KeyE" -> [inputState EXCEPT !.yaw = -1]
           [] code = "KeyA" -> [inputState EXCEPT !.pitch = 1]
           [] code = "KeyD" -> [inputState EXCEPT !.pitch = -1]
           [] code = "KeyW" -> [inputState EXCEPT !.thrust = 1]
           [] code = "KeyS" -> [inputState EXCEPT !.thrust = -1]
           [] OTHER -> inputState
    /\ thrown' = FALSE
    /\ effects' = <<>>
    /\ UNCHANGED <<sysParms, glider, gm, thrusterGlow, planetSelected, closest, rings, pending>>
    /\ UNCHANGED <<lifeVars, frameVars, sceneVars>>

\* a keyup handler that clears the axis only while it still has the sign of
\* the released key
onKeyUp_OwnSign(code) ==
    /\ inputState' =
         CASE code = "KeyQ" /\ inputState.yaw = 1 -> [inputState EXCEPT !.yaw = 0]
           [] code = "KeyE" /\ inputState.yaw = -1 -> [inputState EXCEPT !.yaw = 0]
           [] code = "KeyA" /\ inputState.pitch = 1 -> [inputState EXCEPT !.pitch = 0]
           [] code = "KeyD" /\ inputState.pitch = -1 -> [inputState EXCEPT !.pitch = 0]
           [] code = "KeyW" /\ inputState.thrust = 1 -> [inputState EXCEPT !.thrust = 0]
           [] code = "KeyS" /\ inputState.thrust = -1 -> [inputState EXCEPT !.thrust = 0]
           [] OTHER -> inputState
    /\ thrown' = FALSE
    /\ effects' = <<>>
    /\ UNCHANGED <<sysParms, glider, gm, thrusterGlow, planetSelected, closest, rings, pending>>
    /\ UNCHANGED <<lifeVars, frameVars, sceneVars>>

onKeyUp(code) ==
    /\ inputState' =
         LET s1 == IF code \in {"KeyQ", "KeyE"} THEN [inputState EXCEPT !.yaw = 0] ELSE inputState
             s2 == IF code \in {"KeyA", "KeyD"} THEN [s1 EXCEPT !.pitch = 0] ELSE s1
         IN  IF code \in {"KeyW", "KeyS"} THEN [s2 EXCEPT !.thrust = 0] ELSE s2
    /\ thrown' = FALSE
    /\ effects' = <<>>
    /\ UNCHANGED <<sysParms, glider, gm, thrusterGlow, planetSelected, closest, rings, pending>>
    /\ UNCHANGED <<lifeVars, frameVars, sceneVars>>

----------------------------------------------------------------------------
(* The glider controller *)

\* the glider record after createGlider; rotationQuat counts quarter turns
\* about Y from the identity
gliderInit == [mesh |-> TRUE, speed |-> 0, rotationQuat |-> 0, thrustersOn |-> TRUE]

\* Vector3.Forward() turned by the stored orientation: <<x, z>>
Forward(q) == CASE q = 0 -> <<0, 1>>
                [] q = 1 -> <<1, 0>>
                [] q = 2 -> <<0, -1>>
                [] OTHER -> <<-1, 0>>

\* qYawLocal.multiply(rotationQuat): yawDelta = yaw * yawRate * dt
YawStep(q, yaw, dt) == (q + yaw * dt) % 4

\* a pitch that also turns the stored orientation, so that the forward motion
\* of the frame carries the glider up or down: speed * dt * sin(pitchDelta)
\* is at least one tenth whenever the glider moves
Climb_Tilted(y, pitch, dt) == y + pitch * pitchRate * dt + Sign(pitch) * dt

\* gm.position.y += pitchDelta where pitchDelta = pitch * pitchRate * dt, and
\* a forward vector that never leaves the horizontal plane; y in tenths
Climb(y, pitch, dt) == y + pitch * pitchRate * dt

\* "Update speed" without the Math.min cap
UpdateSpeed_NoCap(speed, thrust, dt) ==
    IF thrust > 0 THEN speed + accel * dt
    ELSE IF thrust < 0 THEN Max(0, speed - decel * dt)
    ELSE speed

\* "Update speed" with the drag that the code has commented out
UpdateSpeed_Drag(speed, thrust, dt) ==
    IF thrust > 0 THEN Min(maxSpeed, speed + accel * dt)
    ELSE IF thrust < 0 THEN Max(0, speed - decel * dt)
    ELSE Max(0, speed - dt)

\* "Update speed" that adds accel once per frame, whatever the frame time
UpdateSpeed_PerFrame(speed, thrust, dt) ==
    IF thrust > 0 THEN Min(maxSpeed, speed + accel)
    ELSE IF thrust < 0 THEN Max(0, speed - decel * dt)
    ELSE speed

\* "Update speed"
UpdateSpeed(speed, thrust, dt) ==
    IF thrust > 0 THEN Min(maxSpeed, speed + accel * dt)
    ELSE IF thrust < 0 THEN Max(0, speed - decel * dt)
    ELSE speed

\* extends * (1 + bounds / 100), half units
Limit(extent) == (Half(extent) * (100 + bounds)) \div 100

\* the two bound checks of one axis: s is [p, speed, glow], p the coordinate
BounceAxis(s, extent) ==
    LET s1 == IF Abs(s.p) > Limit(extent)
              THEN [p |-> Limit(extent) * Sign(s.p), speed |-> 0, glow |-> FALSE]
              ELSE s
    IN  IF Abs(s1.p) < -Limit(extent)
        THEN [p |-> -Limit(extent) * Sign(s1.p), speed |-> 0, glow |-> FALSE]
        ELSE s1

\* gm.position.addInPlace(forward.scale(speed * dt)), one coordinate
Advance(p, f, speed, dt) == p + f * Half(speed * dt)

\* updateGlider(camera, cameraType, birdCam, dt, dirs, needsUpdate):
\* the new [glider, gm, glow]
updateGlider(g, pos, glow, dt, dirs, needsUpdate) ==
    IF ~g.mesh THEN [glider |-> g, gm |-> pos, glow |-> glow]
    ELSE
    LET q1 == IF needsUpdate THEN YawStep(g.rotationQuat, dirs.yaw, dt) ELSE g.rotationQuat
        y1 == IF needsUpdate THEN Climb(pos.y, dirs.pitch, dt) ELSE pos.y
        v1 == UpdateSpeed(g.speed, dirs.thrust, dt)
        bx == BounceAxis([p |-> pos.x, speed |-> v1, glow |-> glow], extendsX)
        bz == BounceAxis([p |-> pos.z, speed |-> bx.speed, glow |-> bx.glow], extendsZ)
        v2 == bz.speed
        glow2 == IF needsUpdate THEN v2 # 0 ELSE bz.glow
        f == Forward(q1)
    IN  [glider |-> [g EXCEPT !.rotationQuat = q1, !.speed = v2],
         gm |-> [x |-> Advance(bx.p, f[1], v2, dt), z |-> Advance(bz.p, f[2], v2, dt),
                 y |-> y1],
         glow |-> glow2]

----------------------------------------------------------------------------
(* Selection: the callback, the highlight ring, the frame callback *)

\* one observable effect of a step
CbEvent(msg, id) == [kind |-> "cb", msg |-> msg, id |-> id, of |-> <<>>]
RingDisposed(name) == [kind |-> "dispose", msg |-> "-", id |-> 0, of |-> name]
RingCreated(name) == [kind |-> "create", msg |-> "-", id |-> 0, of |-> name]

\* scene.meshes.filter(isSelectionRing).forEach(dispose): the effects
DisposeRings(rs) == [k \in 1 .. Len(rs) |-> RingDisposed(rs[k])]

\* planetGlow that leaves the previous rings in the scene
planetGlow_KeepRings(rs, planetName) ==
    [rings |-> rs \o <<planetName>>, effects |-> <<RingCreated(planetName)>>]

\* planetGlow(scene, planet, ...): [rings, effects]
planetGlow(rs, planetName) ==
    [rings |-> <<planetName>>,
     effects |-> DisposeRings(rs) \o <<RingCreated(planetName)>>]

\* (parseInt(closestName.substring(3)) - 1) || undefined : <<>> is undefined
\* the index without "|| undefined": 0 is an index like any other
ObjIndex_ZeroValid(closestName) ==
    LET n == ParseInt(Substring(closestName, 3))
    IN  IF n.nan THEN <<>> ELSE <<n.val - 1>>

ObjIndex(closestName) ==
    LET n == ParseInt(Substring(closestName, 3))
    IN  IF n.nan \/ n.val - 1 = 0 THEN <<>> ELSE <<n.val - 1>>

\* system.find(p => p.name === closestName): the registry positions, <<>> if none
FindPlanet(closestName) ==
    LET hits == {i \in 1 .. NumObjects : system[i].name = closestName}
    IN  IF hits = {} THEN <<>>
        ELSE <<CHOOSE i \in hits : \A j \in hits : i <= j>>

\* JavaScript truth of planetSelected (null and 0 are false)
Truthy(sel) == sel # <<>> /\ sel[1] # 0

\* the test without the comparison with the present selection
EntersSelection_Always(sel, idx) == TRUE

\* "show popup": the test that enters the selected state
EntersSelection(sel, idx) == ~Truthy(sel) \/ sel # idx

\* the history of open "on" events after a sequence of effects
RECURSIVE Replay(_, _)
Replay(open, es) ==
    IF es = <<>> THEN open
    ELSE LET e == Head(es)
         IN  Replay(IF e.kind = "cb" /\ e.msg = "on" THEN open \cup {e.id}
                    ELSE IF e.kind = "cb" /\ e.msg = "off" THEN open \ {e.id}
                    ELSE open,
                    Tail(es))

\* "show popup": select idx, raise "on", put the ring on the planet
showPopup(rs, idx, planetName) ==
    LET pg == planetGlow(rs, planetName)
    IN  [planetSelected |-> idx, rings |-> pg.rings,
         effects |-> <<CbEvent("on", idx[1])>> \o pg.effects]

\* "hide popup" that raises "off" on every frame without a candidate
hidePopup_AlwaysOff(sel, rs) ==
    [planetSelected |-> <<>>, rings |-> <<>>,
     effects |-> <<CbEvent("off", IF sel = <<>> THEN 0 ELSE sel[1])>> \o DisposeRings(rs)]

\* "hide popup": raise "off" for a selection, clear it, dispose the rings
hidePopup(sel, rs) ==
    [planetSelected |-> <<>>, rings |-> <<>>,
     effects |-> (IF Truthy(sel) THEN <<CbEvent("off", sel[1])>> ELSE <<>>)
                   \o DisposeRings(rs)]

\* "Object selection logic" of beforeRender: [planetSelected, rings, effects]
selectObject(sel, rs, closestName) ==
    LET same == [planetSelected |-> sel, rings |-> rs, effects |-> <<>>]
    IN  IF closestName # <<>>
        THEN LET idx == ObjIndex(closestName)
                 planet == FindPlanet(closestName)
             IN  IF idx = <<>> THEN same
                 ELSE IF planet = <<>> THEN same
                 ELSE IF EntersSelection(sel, idx)
                 THEN showPopup(rs, idx, system[planet[1]].name)
                 ELSE same
        ELSE hidePopup(sel, rs)

\* engine.scenes[0].beforeRender, with the frame time and the frame's ray pick
beforeRender(dt, pick) ==
    LET sync == glider.mesh /\ sysParms.thrustersOn # glider.thrustersOn
        g1 == IF sync THEN [glider EXCEPT !.thrustersOn = sysParms.thrustersOn] ELSE glider
        glow1 == IF sync THEN g1.thrustersOn ELSE thrusterGlow
        needsUpdate == inputState.pitch # 0 \/ inputState.yaw # 0
                         \/ inputState.roll # 0 \/ inputState.thrust # 0
        u == updateGlider(g1, gm, glow1, dt, inputState, needsUpdate)
        closestName == raySelect(pick, SHOW_DISTANCE)
        s == selectObject(planetSelected, rings, closestName)
    IN  /\ glider' = u.glider
        /\ closest' = closestName
        /\ gm' = u.gm
        /\ thrusterGlow' = u.glow
        /\ planetSelected' = s.planetSelected
        /\ rings' = s.rings
        /\ effects' = s.effects
        /\ pending' = Replay(pending, s.effects)
        /\ thrown' = FALSE
        /\ UNCHANGED <<inputState, sysParms>>
        /\ UNCHANGED <<lifeVars, sceneVars, keyLog>>

\* a render function that renders whatever the renderLoop parameter says
renderLoop_Ungated(dt, pick) == beforeRender(dt, pick)

\* the function given to engine.runRenderLoop
renderLoop(dt, pick) ==
    IF sysParms.renderLoop
    THEN beforeRender(dt, pick)
    ELSE /\ effects' = <<>>
         /\ thrown' = FALSE
         /\ UNCHANGED <<inputState, sysParms, glider, gm, thrusterGlow,
                        planetSelected, closest, rings, pending>>
         /\ UNCHANGED <<lifeVars, sceneVars, keyLog>>

----------------------------------------------------------------------------
(* The engine: buildCanvas, its suspension at the model load, disposeEngine *)

BuildIds == 1 .. MaxBuilds

\* an engine that was never created; the engine of build b is engine b, and
\* its scenes[0] is the scene that build b's createScene made
NoEngine == [live |-> FALSE, scene |-> FALSE, beforeRender |-> <<>>, loops |-> <<>>]

EngineOp(op, e) == [kind |-> "engine", msg |-> op, id |-> e, of |-> <<>>]

\* the listener objects: the module's named handlers, and closures made by a call
onKeyDownRef == [type |-> "keydown", fn |-> "onKeyDown", by |-> 0]
onKeyUpRef == [type |-> "keyup", fn |-> "onKeyUp", by |-> 0]
ResizeClosure == [type |-> "resize", fn |-> "anonymous", by |-> 0]

\* window.addEventListener: the same function for the same type is added once
addEventListener(ls, l) ==
    IF \E k \in 1 .. Len(ls) : ls[k] = l THEN ls ELSE Append(ls, l)

\* window.removeEventListener: removes the listener that is this very function
removeEventListener(ls, l) == SelectSeq(ls, LAMBDA x : x # l)

\* disposeEngine of the older main.ts: the window listeners it removes
main_RemoveListeners(ls) == removeEventListener(ls, ResizeClosure)

\* disposeEngine: the window listeners it removes
RemoveListeners(ls) ==
    removeEventListener(removeEventListener(removeEventListener(ls, ResizeClosure),
                                            onKeyDownRef), onKeyUpRef)

\* buildCanvas of the older main.ts: two new arrow functions per call
main_AddListeners(ls, b) ==
    addEventListener(addEventListener(ls, [type |-> "keydown", fn |-> "anonymous", by |-> b]),
                     [type |-> "keyup", fn |-> "anonymous", by |-> b])

\* buildCanvas: the named handlers
AddListeners(ls, b) == addEventListener(addEventListener(ls, onKeyDownRef), onKeyUpRef)

\* the engine calls of disposeEngine, in order
DisposeOps(e) == <<EngineOp("stopRenderLoop", e), EngineOp("dispose", e)>>

\* engine.stopRenderLoop() and engine.dispose(): the render functions are
\* dropped, the engine's scenes are disposed with their meshes
Disposed(es, e) == [es EXCEPT ![e] = NoEngine]

\* a disposeEngine that also clears the input record
DisposeEngine_ClearsInput(removed) ==
    /\ IF engine # <<>>
       THEN /\ engines' = Disposed(engines, engine[1])
            /\ effects' = DisposeOps(engine[1])
            /\ engine' = <<>>
            /\ listeners' = removed
            /\ rings' = <<>>
       ELSE /\ effects' = <<>>
            /\ UNCHANGED <<engine, engines, listeners, rings>>
    /\ thrown' = FALSE
    /\ inputState' = [thrust |-> 0, roll |-> 0, yaw |-> 0, pitch |-> 0]
    /\ UNCHANGED <<sysParms, glider, gm, thrusterGlow, planetSelected,
                   closest, pending, builds, frameVars,
                   sceneVars, keyLog>>

\* disposeEngine(); removed is the window's listener list after its
\* removeEventListener calls
DisposeEngine(removed) ==
    /\ IF engine # <<>>
       THEN /\ engines' = Disposed(engines, engine[1])
            /\ effects' = DisposeOps(engine[1])
            /\ engine' = <<>>
            /\ listeners' = removed
            /\ rings' = <<>>
       ELSE /\ effects' = <<>>
            /\ UNCHANGED <<engine, engines, listeners, rings>>
    /\ thrown' = FALSE
    /\ UNCHANGED <<inputState, sysParms, glider, gm, thrusterGlow, planetSelected,
                   closest, pending, builds, frameVars,
                   sceneVars, keyLog>>

disposeEngine == DisposeEngine(RemoveListeners(listeners))

main_disposeEngine == DisposeEngine(main_RemoveListeners(listeners))

\* the call that is made next
NextBuild == CHOOSE b \in BuildIds : builds[b] = "new" /\ \A a \in 1 .. b - 1 : builds[a] # "new"

\* buildCanvas(canvas) up to the await of the model load.  canvas is FALSE for
\* a missing canvas element; engineOk and sceneOk say whether new Engine and
\* the scene and camera construction of createScene succeed; removed is the
\* listener list after the removeEventListener calls of disposeEngine.
BuildCanvas(removed, canvas, engineOk, sceneOk) ==
    /\ \E b \in BuildIds : builds[b] = "new"
    /\ LET b == NextBuild
           had == engine # <<>>
           es1 == IF had THEN Disposed(engines, engine[1]) ELSE engines
           ls1 == IF had THEN removed ELSE listeners
           ops == IF had THEN DisposeOps(engine[1]) ELSE <<>>
       IN  IF ~canvas
           THEN /\ thrown' = TRUE
                /\ builds' = [builds EXCEPT ![b] = "failed"]
                /\ effects' = <<>>
                /\ UNCHANGED <<engine, engines, listeners, rings>>
           ELSE /\ effects' = ops
                /\ listeners' = ls1
                /\ rings' = IF had THEN <<>> ELSE rings
                /\ IF ~engineOk
                   THEN /\ engine' = <<>>
                        /\ engines' = es1
                        /\ thrown' = TRUE
                        /\ builds' = [builds EXCEPT ![b] = "failed"]
                   ELSE /\ engine' = <<b>>
                        /\ engines' = [es1 EXCEPT ![b] = [NoEngine EXCEPT !.live = TRUE,
                                                                         !.scene = sceneOk]]
                        /\ thrown' = ~sceneOk
                        /\ builds' = [builds EXCEPT ![b] = IF sceneOk THEN "loading"
                                                           ELSE "failed"]
    /\ UNCHANGED <<inputState, sysParms, glider, gm, thrusterGlow, planetSelected,
                   closest, pending, frameVars,
                   sceneVars, keyLog>>

buildCanvas(canvas, engineOk, sceneOk) ==
    BuildCanvas(RemoveListeners(listeners), canvas, engineOk, sceneOk)

main_buildCanvas(canvas, engineOk, sceneOk) ==
    BuildCanvas(main_RemoveListeners(listeners), canvas, engineOk, sceneOk)

\* how the model load of createGlider ends
Loads == {"ok", "rejected", "noNode", "noThrusters"}

\* the check after "await createScene": a null engine makes engine.scenes throw
SceneCheckFails == engine = <<>> \/ ~engines[engine[1]].scene

\* a call that goes on to the listeners although the model load failed
SetupFails_LoadIgnored(load) == SceneCheckFails

\* the throws of createGlider, createScene and buildCanvas after the load
SetupFails(load) == load # "ok" \/ SceneCheckFails

\* buildCanvas(canvas) of call b from the end of the model load: the rest of
\* createGlider and createScene, then the listeners, the frame callback and
\* the render loop, all on the engine the module variable names now; added
\* is the listener list after the addEventListener calls
ResumeBuild(added, b, load) ==
    /\ builds[b] = "loading"
    /\ glider' = IF load \in {"ok", "noThrusters"} THEN [glider EXCEPT !.mesh = TRUE]
                 ELSE glider
    /\ gm' = IF load = "ok" THEN [x |-> Half(posX), z |-> Half(posZ), y |-> Tenths(posY)] ELSE gm
    /\ thrusterGlow' = IF load = "ok" THEN TRUE ELSE thrusterGlow
    /\ effects' = <<>>
    /\ IF SetupFails(load)
       THEN /\ thrown' = TRUE
            /\ builds' = [builds EXCEPT ![b] = "failed"]
            /\ UNCHANGED <<engines, listeners, planetSelected, frameVars>>
       ELSE /\ thrown' = FALSE
            /\ builds' = [builds EXCEPT ![b] = "done"]
            /\ listeners' = added
            /\ engines' = [engines EXCEPT ![engine[1]] =
                              [@ EXCEPT !.beforeRender = <<b>>, !.loops = Append(@, b)]]
            /\ planetSelected' = <<>>
            /\ frameNo' = 0
            /\ held' = 0
    /\ UNCHANGED <<inputState, sysParms, closest, rings, pending, engine, ray,
                   sceneVars, keyLog>>

resumeBuild(b, load) == ResumeBuild(AddListeners(listeners, b), b, load)

main_resumeBuild(b, load) == ResumeBuild(main_AddListeners(listeners, b), b, load)

\* the engine calls the render function of build e on engine e, and that
\* scene's beforeRender is the closure of build e
Rendering ==
    /\ engine # <<>>
    /\ \E k \in 1 .. Len(engines[engine[1]].loops) : engines[engine[1]].loops[k] = engine[1]
    /\ engines[engine[1]].beforeRender = engine

----------------------------------------------------------------------------
(* The earlier scenes: scene1.ts and bab3.ts *)

\* Angles of rotation are kept in eighths of a turn, so that mesh.rotate
\* composes to a sum modulo FullTurn.
FullTurn == 8

\* scene1.ts: let popupVisible = false; let popId = null
popupInit == [visible |-> FALSE, popId |-> <<>>]

\* record i of objects.json as imported: no mesh yet, rotation and orbit
\* active, a rotation speed of i eighths of a turn per frame; rotated is the
\* rotation of the record's mesh, x and z its position
planetData(i) ==
    [name |-> ObjName(i), mesh |-> FALSE,
     rotation |-> [speed |-> i, active |-> TRUE],
     orbit |-> [radius |-> 0, speed |-> 0, angle |-> 0, active |-> TRUE],
     rotated |-> 0, x |-> 0, y |-> 0, z |-> 0]

\* per object: the frames that found it with a mesh and rotation.active (spins)
\* and with a mesh and a non-zero orbit.angle (moves), and the orbit.angle of
\* the data
objLogInit(ps) == [i \in 1 .. Len(ps) |-> [spins |-> 0, moves |-> 0, angle0 |-> ps[i].orbit.angle]]

\* createPlanet: a new sphere mesh for the record
createPlanet(planetData_) == [planetData_ EXCEPT !.mesh = TRUE, !.rotated = 0]

\* mesh.rotate(new Vector3(0, 1, 0), amount)
rotate(planet, amount) == [planet EXCEPT !.rotated = (@ + amount) % FullTurn]

\* what the camera sees of the objects in a frame: which are nearer than
\* SHOW_DISTANCE and which are in the frustum; at most MaxNear are near
Views(n) ==
    {v \in [1 .. n -> [near : BOOLEAN, inView : BOOLEAN]] :
        /\ Cardinality({i \in 1 .. n : v[i].near}) <= MaxNear
        /\ \A i \in 1 .. n : ~v[i].near => ~v[i].inView}

\* "if (planet.rotation.active)" left out: every object with a mesh is
\* rotated in every frame
Spin_Always(planet) == rotate(planet, planet.rotation.speed)

\* the rotation step of the loop body
Spin(planet) ==
    IF planet.rotation.active THEN rotate(planet, planet.rotation.speed) ELSE planet

\* the hide branches: the flags are set again, "off" is raised
Deselect(planet) == [planet EXCEPT !.rotation.active = TRUE, !.orbit.active = TRUE]

\* the show branch: the flags are cleared, "on" is raised
Select(planet) == [planet EXCEPT !.rotation.active = FALSE, !.orbit.active = FALSE]

\* a loop that goes on to the rotation and the distance check of an object
\* that has no mesh
Skips_Never(planet) == FALSE

\* "if (!planet.mesh) continue"
Skips(planet) == ~planet.mesh

\* the for loop of beforeRender from index idx (1-based; the callbacks carry
\* the 0-based idx of the code): the registry, the popup and the callbacks
RECURSIVE scene1_Loop(_, _, _, _, _)
scene1_Loop(idx, ps, pop, es, view) ==
    IF idx > Len(ps) THEN [planets |-> ps, popup |-> pop, effects |-> es]
    ELSE IF Skips(ps[idx]) THEN scene1_Loop(idx + 1, ps, pop, es, view)
    ELSE
    LET planet == Spin(ps[idx])
        mine == pop.visible /\ pop.popId = <<planet.name>>
        hide == scene1_Loop(idx + 1, [ps EXCEPT ![idx] = Deselect(planet)], popupInit,
                            Append(es, CbEvent("off", idx - 1)), view)
        show == scene1_Loop(idx + 1, [ps EXCEPT ![idx] = Select(planet)],
                            [visible |-> TRUE, popId |-> <<planet.name>>],
                            Append(es, CbEvent("on", idx - 1)), view)
        keep == scene1_Loop(idx + 1, [ps EXCEPT ![idx] = planet], pop, es, view)
    IN  IF view[idx].near
        THEN IF ~view[idx].inView
             THEN (IF mine THEN hide ELSE keep)
             ELSE (IF ~pop.visible THEN show ELSE keep)
        ELSE (IF mine THEN hide ELSE keep)

\* the history of a frame over the registry ps
Logged1(log, ps) ==
    [i \in 1 .. Len(ps) |->
        [log[i] EXCEPT !.spins = IF ps[i].mesh /\ ps[i].rotation.active THEN @ + 1 ELSE @]]

\* scene1.ts: engine.scenes[0].beforeRender.  The glider record of scene1.ts
\* has a drifting posX/posY/posZ that nothing reads during a session; it is
\* not part of the state.
scene1_beforeRender(view) ==
    LET sync == glider.mesh /\ sysParms.thrustersOn # glider.thrustersOn
        r == scene1_Loop(1, planets, popup, <<>>, view)
    IN  /\ glider' = IF sync THEN [glider EXCEPT !.thrustersOn = sysParms.thrustersOn]
                     ELSE glider
        /\ thrusterGlow' = IF sync THEN sysParms.thrustersOn ELSE thrusterGlow
        /\ planets' = r.planets
        /\ popup' = r.popup
        /\ effects' = r.effects
        /\ pending' = Replay(pending, r.effects)
        /\ objLog' = Logged1(objLog, planets)
        /\ thrown' = FALSE
        /\ UNCHANGED <<inputState, sysParms, gm, planetSelected, closest, rings,
                       lifeVars, keyLog>>

\* scene1.ts: the function given to engine.runRenderLoop
scene1_renderLoop(view) ==
    IF sysParms.renderLoop
    THEN scene1_beforeRender(view)
    ELSE /\ effects' = <<>>
         /\ thrown' = FALSE
         /\ UNCHANGED <<inputState, sysParms, glider, gm, thrusterGlow,
                        planetSelected, closest, rings, pending>>
         /\ UNCHANGED <<lifeVars, sceneVars, keyLog>>

\* scene1.ts: disposeEngine, which removes a new resize function only
scene1_disposeEngine == DisposeEngine(main_RemoveListeners(listeners))

\* scene1.ts: buildCanvas(canvas) from the call to the end of the model load,
\* with no other call in between; load says how the load of the glider ends.
\* createScene gives every record a new mesh before the load starts, and the
\* flags of the records are left as the last session set them.
scene1_buildCanvas(load) ==
    /\ \E b \in BuildIds : builds[b] = "new"
    /\ LET b == NextBuild
           had == engine # <<>>
           es1 == IF had THEN Disposed(engines, engine[1]) ELSE engines
           ok == load = "ok"
       IN  /\ effects' = IF had THEN DisposeOps(engine[1]) ELSE <<>>
           /\ engine' = <<b>>
           /\ engines' = [es1 EXCEPT ![b] =
                            [live |-> TRUE, scene |-> TRUE,
                             beforeRender |-> IF ok THEN <<b>> ELSE <<>>,
                             loops |-> IF ok THEN <<b>> ELSE <<>>]]
           /\ builds' = [builds EXCEPT ![b] = IF ok THEN "done" ELSE "failed"]
           /\ thrown' = ~ok
           /\ planets' = [i \in 1 .. Len(planets) |-> createPlanet(planets[i])]
           /\ objLog' = [i \in 1 .. Len(planets) |-> [objLog[i] EXCEPT !.spins = 0]]
           /\ popup' = IF ok THEN popupInit ELSE popup
           /\ glider' = IF ok THEN [glider EXCEPT !.mesh = TRUE] ELSE glider
           /\ frameNo' = IF ok THEN 0 ELSE frameNo
    /\ UNCHANGED <<inputState, sysParms, gm, thrusterGlow, planetSelected, closest,
                   rings, pending, listeners, held, ray, keyLog>>

----------------------------------------------------------------------------
(* The session *)

Init ==
    /\ inputState = [thrust |-> 0, roll |-> 0, yaw |-> 0, pitch |-> 0]
    /\ sysParms = sysParmsInit
    /\ thrown = FALSE
    /\ glider = gliderInit
    /\ gm = [x |-> Half(posX), z |-> Half(posZ), y |-> Tenths(posY)]
    /\ thrusterGlow = TRUE
    /\ planetSelected = <<>>
    /\ closest = <<>>
    /\ rings = <<>>
    /\ effects = <<>>
    /\ pending = {}
    /\ engine = <<1>>
    /\ engines = [e \in BuildIds |->
                    IF e = 1 THEN [live |-> TRUE, scene |-> TRUE,
                                   beforeRender |-> <<1>>, loops |-> <<1>>]
                    ELSE NoEngine]
    /\ builds = [b \in BuildIds |-> IF b = 1 THEN "done" ELSE "new"]
    /\ listeners = <<onKeyDownRef, onKeyUpRef>>
    /\ frameNo = 0
    /\ held = 0
    /\ ray = [length |-> 0, hits |-> <<>>]
    /\ planets = <<>>
    /\ popup = popupInit
    /\ objLog = <<>>
    /\ keyLog = keyLogInit

\* GamePane.vue: the host's calls of setParams
onVideoEnd == setParams("renderLoop", TRUE)

toggleThrusters == setParams("thrustersOn", ~sysParms.thrustersOn)

\* a frame whose ray hits nothing
NoHit == [hit |-> FALSE, name |-> NoName, dist |-> NearLimit]

\* the whole session: every operation with every input
Next ==
    \/ \E code \in KeyCodes : onKeyDown(code) /\ UNCHANGED keyLog
    \/ \E code \in KeyCodes : onKeyUp(code) /\ UNCHANGED keyLog
    \/ onVideoEnd
    \/ toggleThrusters
    \/ \E dt \in FrameTimes, pick \in Picks :
           renderLoop(dt, pick) /\ UNCHANGED frameVars

Spec == Init /\ [][Next]_vars

\* The session in open space: the camera ray hits no mesh, the keys are the
\* yaw and thrust keys.  The glider part of a frame reads neither the pick
\* nor the selection state.
FlightKeys == {"KeyQ", "KeyE", "KeyW", "KeyS"}

NextGlider ==
    \/ \E code \in FlightKeys : onKeyDown(code) /\ UNCHANGED keyLog
    \/ \E code \in FlightKeys : onKeyUp(code) /\ UNCHANGED keyLog
    \/ onVideoEnd
    \/ \E dt \in FrameTimes : renderLoop(dt, NoHit) /\ UNCHANGED frameVars

SpecGlider == Init /\ [][NextGlider]_vars

\* The session with the keyboard idle: the glider rests, every frame picks
\* any mesh at any distance.  The selection part of a frame reads neither the
\* glider nor the input record.
NextSelect ==
    \/ onVideoEnd
    \/ toggleThrusters
    \/ \E dt \in FrameTimes, pick \in Picks :
           renderLoop(dt, pick) /\ UNCHANGED frameVars

SpecSelect == Init /\ [][NextSelect]_vars

\* The parameter store alone: setParams with every key of SceneParams, an
\* unknown key, and every value of the key's type.
NextParams ==
    \E key \in SceneParamKeys \cup {"bogus"} : \E value \in ParamValues(key) :
        setParams(key, value)

SpecParams == Init /\ [][NextParams]_vars

\* The keyboard and the thrust button: every key is pressed and released in
\* any order, the thrustersOn parameter is toggled, and a few frames run in
\* open space.
NextKeys ==
    \/ \E code \in KeyCodes : onKeyDown(code) /\ UNCHANGED keyLog
    \/ \E code \in KeyCodes : onKeyUp(code) /\ UNCHANGED keyLog
    \/ onVideoEnd
    \/ toggleThrusters
    \/ \E dt \in FrameTimes :
           /\ frameNo < MaxFrames
           /\ renderLoop(dt, NoHit)
           /\ frameNo' = IF sysParms.renderLoop THEN frameNo + 1 ELSE frameNo
           /\ UNCHANGED <<held, ray>>

SpecKeys == Init /\ [][NextKeys]_vars

\* The keyboard alone: any key goes down (and repeats while held) and a key
\* that is down goes up, in any order; the log keeps the events.
NextAxes ==
    \/ \E code \in KeyCodes :
           onKeyDown(code) /\ keyLog' = Logged(keyLog, "keydown", code)
    \/ \E code \in keyLog.down :
           onKeyUp(code) /\ keyLog' = Logged(keyLog, "keyup", code)

SpecAxes == Init /\ [][NextAxes]_vars

\* The thrust keys alone: they are pressed and released, and the frames take
\* up to twice the frame time.  held counts the seconds of the frames that ran
\* with thrust = 1 since the glider was at rest, and is 0 after a frame
\* without thrust or one that ends at rest (a bounce).
BurnTimes == 0 .. 2 * MaxDt

ThrustKeys == {"KeyW", "KeyS"}

NextThrust ==
    \/ \E code \in ThrustKeys : onKeyDown(code) /\ UNCHANGED keyLog
    \/ \E code \in ThrustKeys : onKeyUp(code) /\ UNCHANGED keyLog
    \/ onVideoEnd
    \/ \E dt \in BurnTimes :
           /\ renderLoop(dt, NoHit)
           /\ held' = IF /\ sysParms.renderLoop
                         /\ inputState.thrust = 1
                         /\ glider'.speed # 0
                         /\ glider.speed = 0 \/ held > 0
                      THEN (IF glider.speed = 0 THEN dt ELSE held + dt)
                      ELSE 0
           /\ UNCHANGED <<frameNo, ray>>

SpecThrust == Init /\ [][NextThrust]_vars

\* The ray pick alone: one camera ray with its hits, and frames that pick
\* along it once the render loop is switched on.
InitPick ==
    /\ inputState = [thrust |-> 0, roll |-> 0, yaw |-> 0, pitch |-> 0]
    /\ sysParms = sysParmsInit
    /\ thrown = FALSE
    /\ glider = gliderInit
    /\ gm = [x |-> Half(posX), z |-> Half(posZ), y |-> Tenths(posY)]
    /\ thrusterGlow = TRUE
    /\ planetSelected = <<>>
    /\ closest = <<>>
    /\ rings = <<>>
    /\ effects = <<>>
    /\ pending = {}
    /\ engine = <<1>>
    /\ engines = [e \in BuildIds |->
                    IF e = 1 THEN [live |-> TRUE, scene |-> TRUE,
                                   beforeRender |-> <<1>>, loops |-> <<1>>]
                    ELSE NoEngine]
    /\ builds = [b \in BuildIds |-> IF b = 1 THEN "done" ELSE "new"]
    /\ listeners = <<onKeyDownRef, onKeyUpRef>>
    /\ frameNo = 0
    /\ held = 0
    /\ ray \in [length : RayLengths, hits : HitLists]
    /\ planets = <<>>
    /\ popup = popupInit
    /\ objLog = <<>>
    /\ keyLog = keyLogInit

NextPick ==
    \/ onVideoEnd
    \/ \E dt \in FrameTimes :
           /\ frameNo < MaxFrames
           /\ renderLoop(dt, Look(ray.length, ray.hits))
           /\ frameNo' = IF sysParms.renderLoop THEN frameNo + 1 ELSE frameNo
           /\ UNCHANGED <<held, ray>>

SpecPick == InitPick /\ [][NextPick]_vars

\* The module as loaded, before any call of buildCanvas: no engine, no glider
\* mesh, and the thruster meshes not coloured
gliderModule == [gliderInit EXCEPT !.mesh = FALSE]

InitModule ==
    /\ inputState = [thrust |-> 0, roll |-> 0, yaw |-> 0, pitch |-> 0]
    /\ sysParms = sysParmsInit
    /\ thrown = FALSE
    /\ glider = gliderModule
    /\ gm = [x |-> Half(posX), z |-> Half(posZ), y |-> Tenths(posY)]
    /\ thrusterGlow = FALSE
    /\ planetSelected = <<>>
    /\ closest = <<>>
    /\ rings = <<>>
    /\ effects = <<>>
    /\ pending = {}
    /\ engine = <<>>
    /\ engines = [e \in BuildIds |-> NoEngine]
    /\ builds = [b \in BuildIds |-> "new"]
    /\ listeners = <<>>
    /\ frameNo = 0
    /\ held = 0
    /\ ray = [length |-> 0, hits |-> <<>>]
    /\ planets = <<>>
    /\ popup = popupInit
    /\ objLog = <<>>
    /\ keyLog = keyLogInit

\* a key event reaches the handlers only while a listener of its type is registered
Listening(type) == \E k \in 1 .. Len(listeners) : listeners[k].type = type

\* the keys pressed while the builds are explored: thrust and one yaw key
PressedKeys == {"KeyW", "KeyE"}

\* The host mounts and unmounts the pane: calls of buildCanvas that suspend at
\* the model load and resume in any order, disposeEngine at any time, and in
\* between key presses and frames of the scene that renders.
NextLife ==
    \/ \E canvas \in BOOLEAN, engineOk \in BOOLEAN, sceneOk \in BOOLEAN :
           buildCanvas(canvas, engineOk, sceneOk)
    \/ \E b \in BuildIds, load \in Loads : resumeBuild(b, load)
    \/ disposeEngine
    \/ \E code \in PressedKeys : Listening("keydown") /\ onKeyDown(code) /\ UNCHANGED keyLog
    \/ onVideoEnd
    \/ \E dt \in FrameTimes :
           /\ Rendering
           /\ frameNo < MaxFrames
           /\ renderLoop(dt, NoHit)
           /\ frameNo' = frameNo + 1
           /\ UNCHANGED <<held, ray>>

SpecLife == InitModule /\ [][NextLife]_vars

\* The same calls with the buildCanvas and disposeEngine of the older main.ts
NextMain ==
    \/ \E canvas \in BOOLEAN, engineOk \in BOOLEAN, sceneOk \in BOOLEAN :
           main_buildCanvas(canvas, engineOk, sceneOk)
    \/ \E b \in BuildIds, load \in Loads : main_resumeBuild(b, load)
    \/ main_disposeEngine

SpecMain == InitModule /\ [][NextMain]_vars

\* The frame callbacks as functions of the records they guard against: the
\* scene is built and renders, and Init draws whether the glider record has
\* its mesh and which record of the registry, if any, has none.  In a session
\* createScene gives every record its mesh before the callback is installed.
GuardKeys == {"KeyW", "KeyE"}

InitGuard ==
    /\ inputState = [thrust |-> 0, roll |-> 0, yaw |-> 0, pitch |-> 0]
    /\ sysParms = sysParmsInit
    /\ thrown = FALSE
    /\ glider \in {gliderInit, gliderModule}
    /\ gm = [x |-> Half(posX), z |-> Half(posZ), y |-> Tenths(posY)]
    /\ thrusterGlow = glider.mesh
    /\ planetSelected = <<>>
    /\ closest = <<>>
    /\ rings = <<>>
    /\ effects = <<>>
    /\ pending = {}
    /\ engine = <<1>>
    /\ engines = [e \in BuildIds |->
                    IF e = 1 THEN [live |-> TRUE, scene |-> TRUE,
                                   beforeRender |-> <<1>>, loops |-> <<1>>]
                    ELSE NoEngine]
    /\ builds = [b \in BuildIds |-> IF b = 1 THEN "done" ELSE "new"]
    /\ listeners = <<onKeyDownRef, onKeyUpRef>>
    /\ frameNo = 0
    /\ held = 0
    /\ ray = [length |-> 0, hits |-> <<>>]
    /\ \E missing \in 0 .. NumObjects :
           planets = [i \in 1 .. NumObjects |->
                        IF i = missing THEN planetData(i) ELSE createPlanet(planetData(i))]
    /\ popup = popupInit
    /\ objLog = objLogInit(planets)
    /\ keyLog = keyLogInit

NextGuard ==
    \/ \E code \in GuardKeys : onKeyDown(code) /\ UNCHANGED keyLog
    \/ onVideoEnd
    \/ \E dt \in FrameTimes :
           /\ sysParms.renderLoop
           /\ frameNo < MaxFrames
           /\ renderLoop(dt, NoHit)
           /\ frameNo' = frameNo + 1
           /\ UNCHANGED <<held, ray>>
    \/ \E view \in Views(NumObjects) :
           /\ sysParms.renderLoop
           /\ frameNo < MaxFrames
           /\ scene1_renderLoop(view)
           /\ frameNo' = frameNo + 1
           /\ UNCHANGED <<held, ray>>

SpecGuard == InitGuard /\ [][NextGuard]_vars

----------------------------------------------------------------------------
(* bab3.ts: the planets on their orbits *)

\* Orbit angles are whole quarter turns, so that sine and cosine are exact;
\* the angle itself is never reduced, as in the code.
sin(angle) == CASE angle % 4 = 0 -> 0
                [] angle % 4 = 1 -> 1
                [] angle % 4 = 2 -> 0
                [] OTHER -> -1

cos(angle) == sin(angle + 1)

\* the height the frame callback puts every planet at
orbitY == 3

\* the 0.01 rad of the frame's mesh.rotate, one unit of the rotation angle
babSpin == 1

\* the records of bab3.ts's system, in key order: the name, xpos and
\* orbit.radius of the source; angle and speed give the orbit.angle and
\* orbit.speed of mercury, venus and earth in quarter turns
babNames == <<"sun", "mercury", "venus", "earth">>
babXpos == <<0, 4, 7, 10>>
babRadius == <<0, 4, 7, 14>>

babSystem(angle, speed) ==
    [i \in 1 .. 4 |->
        [name |-> babNames[i], mesh |-> FALSE, xpos |-> babXpos[i],
         rotation |-> [speed |-> 0, active |-> FALSE],
         orbit |-> [radius |-> babRadius[i],
                    speed |-> IF i = 1 THEN 0 ELSE speed[i],
                    angle |-> IF i = 1 THEN 0 ELSE angle[i],
                    active |-> FALSE],
         rotated |-> 0, x |-> 0, y |-> 0, z |-> 0]]

\* the orbit angles and speeds the planets are tried with
OrbitAngles == {0, 1, 2}
OrbitSpeeds == {0, 1, 2}

\* bab3.ts: createPlanet, a new sphere at x = xpos
bab3_createPlanet(planetData_) ==
    [planetData_ EXCEPT !.mesh = TRUE, !.rotated = 0, !.x = planetData_.xpos,
                        !.y = 0, !.z = 0]

\* an orbit step that advances the angle before it places the planet
orbitStep_AngleFirst(planet) ==
    IF planet.orbit.angle # 0
    THEN [planet EXCEPT !.orbit.angle = @ + planet.orbit.speed,
                        !.x = planet.orbit.radius * sin(planet.orbit.angle + planet.orbit.speed),
                        !.z = planet.orbit.radius * cos(planet.orbit.angle + planet.orbit.speed)]
    ELSE planet

\* "if (planet.orbit.angle != 0)": place the planet, then advance the angle
orbitStep(planet) ==
    IF planet.orbit.angle # 0
    THEN [planet EXCEPT !.x = planet.orbit.radius * sin(planet.orbit.angle),
                        !.z = planet.orbit.radius * cos(planet.orbit.angle),
                        !.orbit.angle = @ + planet.orbit.speed]
    ELSE planet

\* the body of the loop over Object.keys(system)
bab3_Body(planet) ==
    IF ~planet.mesh THEN planet
    ELSE rotate(orbitStep([planet EXCEPT !.y = orbitY]), babSpin)

\* the history of a frame over the registry ps
Logged3(log, ps) ==
    [i \in 1 .. Len(ps) |->
        [log[i] EXCEPT !.spins = IF ps[i].mesh THEN @ + 1 ELSE @,
                       !.moves = IF ps[i].mesh /\ ps[i].orbit.angle # 0 THEN @ + 1 ELSE @]]

\* bab3.ts: engine.scenes[0].beforeRender, run by scene.render() of the
\* render loop, which nothing gates
bab3_beforeRender ==
    /\ planets' = [i \in 1 .. Len(planets) |-> bab3_Body(planets[i])]
    /\ objLog' = Logged3(objLog, planets)
    /\ effects' = <<>>
    /\ thrown' = FALSE
    /\ UNCHANGED <<inputState, sysParms, glider, gm, thrusterGlow, planetSelected,
                   closest, rings, pending, popup, lifeVars, keyLog>>

\* bab3.ts: buildCanvas(elem), which the entry file calls once; canvas is
\* FALSE for an element that is not in the document
bab3_buildCanvas(canvas) ==
    /\ builds[1] = "new"
    /\ IF ~canvas
       THEN /\ thrown' = TRUE
            /\ builds' = [builds EXCEPT ![1] = "failed"]
            /\ UNCHANGED <<engine, engines, listeners, planets>>
       ELSE /\ thrown' = FALSE
            /\ builds' = [builds EXCEPT ![1] = "done"]
            /\ engine' = <<1>>
            /\ engines' = [engines EXCEPT ![1] = [live |-> TRUE, scene |-> TRUE,
                                                  beforeRender |-> <<1>>, loops |-> <<1>>]]
            /\ listeners' = addEventListener(listeners, [ResizeClosure EXCEPT !.by = 1])
            /\ planets' = [i \in 1 .. Len(planets) |-> bab3_createPlanet(planets[i])]
    /\ effects' = <<>>
    /\ UNCHANGED <<inputState, sysParms, glider, gm, thrusterGlow, planetSelected,
                   closest, rings, pending, popup, objLog, frameVars, keyLog>>

\* bab3.ts as loaded, for the orbit angles and speeds tried
InitBab3 ==
    /\ inputState = [thrust |-> 0, roll |-> 0, yaw |-> 0, pitch |-> 0]
    /\ sysParms = sysParmsInit
    /\ thrown = FALSE
    /\ glider = gliderModule
    /\ gm = [x |-> Half(posX), z |-> Half(posZ), y |-> Tenths(posY)]
    /\ thrusterGlow = FALSE
    /\ planetSelected = <<>>
    /\ closest = <<>>
    /\ rings = <<>>
    /\ effects = <<>>
    /\ pending = {}
    /\ engine = <<>>
    /\ engines = [e \in BuildIds |-> NoEngine]
    /\ builds = [b \in BuildIds |-> "new"]
    /\ listeners = <<>>
    /\ frameNo = 0
    /\ held = 0
    /\ ray = [length |-> 0, hits |-> <<>>]
    /\ \E angle \in [2 .. 4 -> OrbitAngles], speed \in [2 .. 4 -> OrbitSpeeds] :
           planets = babSystem(angle, speed)
    /\ popup = popupInit
    /\ objLog = objLogInit(planets)
    /\ keyLog = keyLogInit

\* the page loads, the entry builds the canvas, the engine renders frames
NextBab3 ==
    \/ \E canvas \in BOOLEAN : bab3_buildCanvas(canvas)
    \/ /\ Rendering
       /\ frameNo < MaxFrames
       /\ bab3_beforeRender
       /\ frameNo' = frameNo + 1
       /\ UNCHANGED <<held, ray>>

SpecBab3 == InitBab3 /\ [][NextBab3]_vars

\* scene1.ts as loaded: the registry is the imported data, nothing is built
InitScene1 ==
    /\ inputState = [thrust |-> 0, roll |-> 0, yaw |-> 0, pitch |-> 0]
    /\ sysParms = sysParmsInit
    /\ thrown = FALSE
    /\ glider = gliderModule
    /\ gm = [x |-> Half(posX), z |-> Half(posZ), y |-> Tenths(posY)]
    /\ thrusterGlow = FALSE
    /\ planetSelected = <<>>
    /\ closest = <<>>
    /\ rings = <<>>
    /\ effects = <<>>
    /\ pending = {}
    /\ engine = <<>>
    /\ engines = [e \in BuildIds |-> NoEngine]
    /\ builds = [b \in BuildIds |-> "new"]
    /\ listeners = <<>>
    /\ frameNo = 0
    /\ held = 0
    /\ ray = [length |-> 0, hits |-> <<>>]
    /\ planets = [i \in 1 .. NumObjects |-> planetData(i)]
    /\ popup = popupInit
    /\ objLog = objLogInit(planets)
    /\ keyLog = keyLogInit

\* The host of scene1.ts mounts and unmounts the pane and ends the video; the
\* scene that renders runs frames in which the camera sees any of the objects.
NextScene1 ==
    \/ \E load \in Loads : scene1_buildCanvas(load)
    \/ scene1_disposeEngine
    \/ onVideoEnd
    \/ \E view \in Views(NumObjects) :
           /\ Rendering
           /\ frameNo < MaxFrames
           /\ scene1_renderLoop(view)
           /\ frameNo' = IF sysParms.renderLoop THEN frameNo + 1 ELSE frameNo
           /\ UNCHANGED <<held, ray>>

SpecScene1 == InitScene1 /\ [][NextScene1]_vars

----------------------------------------------------------------------------
(* Steps of the frame callback, for the properties below *)

\* a step in which the render loop ran the frame callback
Frame == sysParms.renderLoop /\ \E dt \in FrameTimes, pick \in Picks : beforeRender(dt, pick)

\* a frame with a positive frame time
MovingFrame == sysParms.renderLoop
                 /\ \E dt \in FrameTimes \ {0}, pick \in Picks : beforeRender(dt, pick)

\* number of positions of the sequence es holding e
Count(es, e) == Cardinality({k \in 1 .. Len(es) : es[k] = e})

\* some position of es holds e
Has(es, e) == \E k \in 1 .. Len(es) : es[k] = e

----------------------------------------------------------------------------
(* The glider controller: C1, C2, C9 *)

\* C1: after every frame |position.x| <= extendsX * 1.05 and
\* |position.z| <= extendsZ * 1.05.
C1_PositionWithinMargin ==
    /\ Abs(gm.x) <= Limit(extendsX)
    /\ Abs(gm.z) <= Limit(extendsZ)

\* C2: glider.speed stays within 0 .. maxSpeed after every frame, bounces included.
C2_SpeedInRange == 0 <= glider.speed /\ glider.speed <= maxSpeed

\* the cap is met while thrust is held
C2_Witness == glider.speed = maxSpeed /\ inputState.thrust = 1 /\ gm.x # Half(posX)

\* C9: with the glider at x = extendsX, heading +x with speed > 0 and no yaw
\* input, the next frame sets x to extendsX * 1.05, the speed to 0 and the
\* thrusters off (highlight and thrustersOn flag).
C9_ClampAtExtent ==
    [][(/\ gm.x = Half(extendsX)
        /\ Forward(glider.rotationQuat) = <<1, 0>>
        /\ glider.speed > 0
        /\ inputState.yaw = 0
        /\ MovingFrame)
       => (/\ gm'.x = Limit(extendsX)
           /\ glider'.speed = 0
           /\ ~thrusterGlow'
           /\ ~glider'.thrustersOn)]_vars

----------------------------------------------------------------------------
(* Selection: C3 .. C8 *)

\* the object indexes a callback can carry
Indexes == 0 .. NumObjects

\* the registry position of the object with callback index i
ObjectOf(i) == i + 1

\* the callbacks among the effects of a step, in order
Callbacks(es) == SelectSeq(es, LAMBDA e : e.kind = "cb")

\* es holds e1, e2, e3 at increasing positions
InOrder(es, e1, e2, e3) ==
    \E k1, k2, k3 \in 1 .. Len(es) :
        k1 < k2 /\ k2 < k3 /\ es[k1] = e1 /\ es[k2] = e2 /\ es[k3] = e3

\* C3: a frame that selects an object raises exactly one "on" for it; a
\* frame that ends or replaces a selection raises exactly one "off" for it;
\* no "on" is raised for an object whose last event was "on".
C3_OnOffExactlyOnce ==
    [][Frame =>
        \A i \in Indexes :
            /\ (planetSelected # <<i>> /\ planetSelected' = <<i>>)
                  => Count(effects', CbEvent("on", i)) = 1
            /\ (planetSelected = <<i>> /\ planetSelected' # <<i>>)
                  => Count(effects', CbEvent("off", i)) = 1
            /\ Has(effects', CbEvent("on", i))
                  => (i \notin pending \/ Head(Callbacks(effects')) = CbEvent("off", i))]_vars

\* C4: with object A selected, a frame whose candidate is another registry
\* object B raises "off" for A, disposes A's ring and then raises "on" for B.
\* B ranges over the objects with a non-zero index; obj1 as candidate is the
\* case of C5.
C4_SwitchOffThenOn ==
    [][\A a \in Indexes, j \in 2 .. NumObjects :
        (/\ planetSelected = <<a>>
         /\ ObjectOf(a) # j
         /\ Frame
         /\ closest' = system[j].name)
        => InOrder(effects', CbEvent("off", a), RingDisposed(system[ObjectOf(a)].name),
                   CbEvent("on", j - 1))]_vars

\* C5: with nothing selected, a frame whose candidate is the j-th object of
\* the registry (obj1 included) selects it: "on" with index j - 1 and its ring.
C5_EveryObjectSelectable ==
    [][\A j \in 1 .. NumObjects :
        (planetSelected = <<>> /\ Frame /\ closest' = system[j].name)
        => (/\ planetSelected' = <<j - 1>>
            /\ Has(effects', CbEvent("on", j - 1))
            /\ rings' = <<system[j].name>>)]_vars

\* C6: at most one selected index, at most one ring mesh; a ring exists
\* exactly when an object is selected, and it hangs on that object.
C6_OneSelectionOneRing ==
    /\ Len(planetSelected) <= 1
    /\ Len(rings) <= 1
    /\ (rings # <<>>) <=> (planetSelected # <<>>)
    /\ planetSelected # <<>> =>
          /\ ObjectOf(planetSelected[1]) \in 1 .. NumObjects
          /\ rings[1] = system[ObjectOf(planetSelected[1])].name

\* the selection has just moved from one object to another
C6_Witness ==
    /\ planetSelected # <<>>
    /\ \E n \in MeshNames : n # rings[1] /\ Has(effects, RingDisposed(n))
    /\ Has(effects, RingCreated(rings[1]))

\* C7: a frame without candidate ends a selection with one "off" carrying
\* the selected index; with nothing selected it raises no callback; either
\* way nothing is selected afterwards.
C7_OffOnceThenSilent ==
    [][(Frame /\ closest' = <<>>) =>
        /\ planetSelected' = <<>>
        /\ Callbacks(effects') =
              IF planetSelected # <<>> THEN <<CbEvent("off", planetSelected[1])>> ELSE <<>>]_vars

\* a frame without candidate has just ended a selection
C7_Witness ==
    /\ planetSelected = <<>>
    /\ closest = <<>>
    /\ \E i \in Indexes : Callbacks(effects) = <<CbEvent("off", i)>>

\* C8: a frame whose candidate is the selected object raises no callback,
\* keeps the selected index and neither disposes nor creates a ring.
C8_SameCandidateNoOp ==
    [][\A a \in Indexes :
        (/\ planetSelected = <<a>>
         /\ ObjectOf(a) \in 1 .. NumObjects
         /\ Frame
         /\ closest' = system[ObjectOf(a)].name)
        => (effects' = <<>> /\ planetSelected' = planetSelected /\ rings' = rings)]_vars

\* a frame has run with the selected object as candidate again
C8_Witness ==
    /\ planetSelected # <<>>
    /\ rings # <<>>
    /\ closest = rings[1]
    /\ effects = <<>>

----------------------------------------------------------------------------
(* The parameter store: C10 *)

\* the keys with an initial value in the store
OwnKeys == {"renderLoop", "gravity", "buoyance", "cluster", "camMode", "thrustersOn"}

\* C10: setParams with a key outside the store throws and changes nothing;
\* with a key of the store it sets that key to the value and no other, and
\* the store keeps its keys.
C10_SetParamsRejectsUnknown ==
    [][\A key \in SceneParamKeys \cup {"bogus"} : \A value \in ParamValues(key) :
        setParams(key, value) =>
            IF key \in OwnKeys
            THEN /\ ~thrown'
                 /\ DOMAIN sysParms' = OwnKeys
                 /\ sysParms'[key] = value
                 /\ \A k \in OwnKeys \ {key} : sysParms'[k] = sysParms[k]
            ELSE /\ thrown'
                 /\ sysParms' = sysParms]_vars

\* an unknown key was rejected after known keys were set
C10_Witness ==
    /\ thrown
    /\ sysParms.gravity = 2
    /\ sysParms.camMode = "follow"
    /\ sysParms.renderLoop

----------------------------------------------------------------------------
(* The engine and the calls of buildCanvas *)

\* what a step registered: no listener, render function or frame callback
\* that was not there before
NothingRegistered ==
    /\ \A k \in 1 .. Len(listeners') : \E j \in 1 .. Len(listeners) : listeners[j] = listeners'[k]
    /\ \A e \in BuildIds :
         /\ Len(engines'[e].loops) <= Len(engines[e].loops)
         /\ engines'[e].beforeRender \in {<<>>, engines[e].beforeRender}

\* what is registered in the name of call b
RegisteredBy(b) ==
    \/ \E e \in BuildIds : engines[e].beforeRender = <<b>>
    \/ \E e \in BuildIds : \E k \in 1 .. Len(engines[e].loops) : engines[e].loops[k] = b
    \/ \E k \in 1 .. Len(listeners) : listeners[k].by = b

\* C11: a call of buildCanvas that fails at setup (no canvas, engine or scene
\* construction failing, the model load failing, the glider node or the
\* thruster meshes missing, no scene on the engine after the load) ends by
\* throwing, and that call registers no key listener, installs no frame
\* callback and starts no render loop, then or later.
C11_FailedBuildRegistersNothing ==
    /\ [][/\ \A canvas \in BOOLEAN, engineOk \in BOOLEAN, sceneOk \in BOOLEAN :
               (buildCanvas(canvas, engineOk, sceneOk) /\ ~(canvas /\ engineOk /\ sceneOk))
                   => (thrown' /\ NothingRegistered)
          /\ \A b \in BuildIds, load \in Loads :
               (resumeBuild(b, load) /\ (load # "ok" \/ SceneCheckFails))
                   => (thrown' /\ NothingRegistered)]_vars
    /\ [](\A b \in BuildIds : builds[b] = "failed" => ~RegisteredBy(b))

\* a call failed on the thruster meshes after the glider node was stored
C11_Witness ==
    /\ thrown
    /\ builds[1] = "failed"
    /\ glider.mesh
    /\ engine = <<1>>
    /\ listeners = <<>>
    /\ engines[1].loops = <<>>

\* C12: disposeEngine stops the render loop before it disposes the engine, and
\* when it returns no keydown or keyup listener is left on the window, in
\* every cycle of buildCanvas and disposeEngine.
C12_DisposeRemovesKeyListeners ==
    [][((disposeEngine \/ main_disposeEngine) /\ engine # <<>>)
          => /\ effects' = <<EngineOp("stopRenderLoop", engine[1]), EngineOp("dispose", engine[1])>>
             /\ engines'[engine[1]].loops = <<>>
             /\ \A k \in 1 .. Len(listeners') : listeners'[k].type \notin {"keydown", "keyup"}]_vars

----------------------------------------------------------------------------
(* The ray pick *)

\* the index of the first hit of the list that is a hit, 0 when there is none
FirstHit(hits) ==
    IF \A k \in 1 .. Len(hits) : ~hits[k].hit THEN 0
    ELSE CHOOSE k \in 1 .. Len(hits) : hits[k].hit /\ \A j \in 1 .. k - 1 : ~hits[j].hit

\* C13: the pick of a frame is a name only if the ray has a length, its closest
\* hit has a mesh with a non-empty name and the camera-to-mesh distance d of
\* that mesh satisfies 0.5 < d <= cutOff, and then it is that mesh's name;
\* in every other case there is no candidate, whatever the farther hits are.
C13_ClosestHitOnly ==
    frameNo > 0 =>
        LET k == FirstHit(ray.hits)
        IN  IF /\ ray.length # 0
               /\ k # 0
               /\ ray.hits[k].name # NoName
               /\ NearLimit < ray.hits[k].dist
               /\ ray.hits[k].dist <= Half(SHOW_DISTANCE)
            THEN closest = ray.hits[k].name
            ELSE closest = <<>>

\* the closest hit is out of range, a farther hit is a planet in range, and
\* the frame found no candidate
C13_Witness ==
    /\ frameNo > 0
    /\ closest = <<>>
    /\ ray.length # 0
    /\ Len(ray.hits) = 2
    /\ ray.hits[1] = [hit |-> TRUE, name |-> ObjName(2), dist |-> Half(SHOW_DISTANCE) + 1]
    /\ ray.hits[2] = [hit |-> TRUE, name |-> ObjName(3), dist |-> Half(SHOW_DISTANCE)]

----------------------------------------------------------------------------
(* Speed under thrust *)

\* C14: from rest, thrust = 1 held over frames whose times add up to 2 s,
\* with no bounce, leaves the speed at min(maxSpeed, 2 * accel), however the
\* 2 s are split into frames.
C14_TwoSecondsOfThrust == held = 2 => glider.speed = Min(maxSpeed, 2 * accel)

\* 2 s of thrust in two frames of 1 s: 10 then 15 units travelled
C14_Witness ==
    /\ held = 2
    /\ glider.speed = maxSpeed
    /\ gm.z = Half(posZ) + Half(accel) + Half(maxSpeed)

----------------------------------------------------------------------------
(* The glider across scenes *)

\* C15: a call of buildCanvas that completes on the engine it created (the
\* scene before it was torn down by disposeEngine) leaves the glider in its
\* initial state: speed 0, the identity as stored orientation, the initial
\* position, whatever it had reached in the scene before.
C15_RebuildResetsGlider ==
    [][\A b \in BuildIds :
          (resumeBuild(b, "ok") /\ engine = <<b>> /\ builds'[b] = "done")
              => /\ glider'.speed = 0
                 /\ glider'.rotationQuat = 0
                 /\ gm' = [x |-> Half(posX), z |-> Half(posZ), y |-> Tenths(posY)]]_vars

----------------------------------------------------------------------------
(* The input record *)

\* C16: yaw, pitch and thrust of the input record are always -1, 0 or 1; a
\* step that changes the record is a key handler and changes nothing of the
\* glider, the selection or the parameters; a frame leaves the record as the
\* last key event wrote it.
C16_KeysWriteInputOnly ==
    /\ [](/\ inputState.yaw \in {-1, 0, 1}
          /\ inputState.pitch \in {-1, 0, 1}
          /\ inputState.thrust \in {-1, 0, 1})
    /\ [][inputState' # inputState
            => /\ \E code \in KeyCodes : onKeyDown(code) \/ onKeyUp(code)
               /\ UNCHANGED <<glider, gm, thrusterGlow, planetSelected, rings,
                              pending, sysParms, frameNo>>]_vars
    /\ [][frameNo' # frameNo => inputState' = inputState]_vars

\* a frame ran with the record the last key events wrote
C16_Witness ==
    /\ frameNo = 1
    /\ inputState = [thrust |-> 1, roll |-> 0, yaw |-> 1, pitch |-> -1]
    /\ glider.speed = accel
    /\ glider.rotationQuat = 1

----------------------------------------------------------------------------
(* Idle and powered *)

\* the frame starts with the glider beyond the limit of an axis: it bounces
Bounces == Abs(gm.x) > Limit(extendsX) \/ Abs(gm.z) > Limit(extendsZ)

\* C17: in a frame the speed leaves 0 only with thrust > 0, and returns to 0
\* only with thrust < 0 or a bounce; with thrust = 0 and no bounce the speed
\* is unchanged and the glider advances by speed * dt along its forward axis.
C17_SpeedChangesOnlyByThrustOrBounce ==
    [][\A dt \in FrameTimes :
          (sysParms.renderLoop /\ beforeRender(dt, NoHit))
              => /\ (glider.speed = 0 /\ glider'.speed > 0) => inputState.thrust > 0
                 /\ (glider.speed > 0 /\ glider'.speed = 0)
                        => (inputState.thrust < 0 \/ Bounces)
                 /\ (inputState.thrust = 0 /\ ~Bounces)
                        => /\ glider'.speed = glider.speed
                           /\ gm'.x = gm.x + Forward(glider'.rotationQuat)[1]
                                                * Half(glider.speed * dt)
                           /\ gm'.z = gm.z + Forward(glider'.rotationQuat)[2]
                                                * Half(glider.speed * dt)]_vars

\* one frame of thrust to speed 10, then a frame of coasting at that speed
C17_Witness ==
    /\ inputState.thrust = 0
    /\ glider.speed = accel
    /\ glider.rotationQuat = 0
    /\ gm = [x |-> Half(posX), z |-> Half(posZ) + 2 * Half(accel), y |-> Tenths(posY)]

----------------------------------------------------------------------------
(* Candidates that are not objects *)

\* names in range of the pick that give no index: the poster plane and the
\* ground have no number, obj1 gives the index 0
InvalidNames == {PosterName, GroundName, ObjName(1)}

\* C18: a frame whose candidate is a mesh name that is not a valid object name
\* raises no callback and leaves the selected index and the highlight ring as
\* they were, also when an object was selected before.
C18_InvalidCandidateChangesNothing ==
    [][(Frame /\ closest' \in InvalidNames)
          => /\ effects' = <<>>
             /\ planetSelected' = planetSelected
             /\ rings' = rings
             /\ pending' = pending]_vars

\* an object is selected and ringed, and the last frame's candidate was obj1
C18_Witness ==
    /\ closest = ObjName(1)
    /\ planetSelected = <<2>>
    /\ rings = <<ObjName(3)>>
    /\ effects = <<>>

----------------------------------------------------------------------------
(* Overlapping calls of buildCanvas *)

\* C19: whatever the order in which calls of buildCanvas suspend and resume
\* and disposeEngine is called, at most one engine is live, the live engine
\* has at most one render function and one frame callback, both of the call
\* that created this engine (so they render its scene), and no call has a
\* render function on an engine it did not create.
C19_OneEngineOneLoop ==
    /\ Cardinality({e \in BuildIds : engines[e].live}) <= 1
    /\ \A e \in BuildIds :
         /\ Len(engines[e].loops) <= 1
         /\ \A k \in 1 .. Len(engines[e].loops) : engines[e].loops[k] = e
         /\ engines[e].beforeRender \in {<<>>, <<e>>}

----------------------------------------------------------------------------
(* The thruster highlight *)

\* C20: at the end of every frame with the glider loaded, the highlight last
\* applied by setThrusters, glider.thrustersOn and the thrustersOn parameter
\* are all on or all off.
C20_ThrusterStatesAgree ==
    [][(frameNo' # frameNo /\ glider.mesh)
          => /\ thrusterGlow' = glider'.thrustersOn
             /\ glider'.thrustersOn = sysParms'.thrustersOn]_vars

----------------------------------------------------------------------------
(* Frames while the render loop is switched off *)

\* C25: while the renderLoop parameter is false no step, whatever key event or
\* render-loop call it is, changes the glider, its position, the thruster
\* highlight, the selection, the closest hit or the rings, counts as a frame
\* or raises a selection callback; the frames that ran all ran with the
\* parameter true.
C25_NoFramesWhileStopped ==
    [][/\ ~sysParms.renderLoop =>
            /\ UNCHANGED <<glider, gm, thrusterGlow, planetSelected, closest,
                           rings, pending, frameNo>>
            /\ Callbacks(effects') = <<>>
       /\ frameNo' > frameNo => sysParms.renderLoop]_vars

\* a key was pressed while the loop was off, and the first frame after the
\* parameter was set has used it
C25_Witness ==
    /\ sysParms.renderLoop
    /\ frameNo = 1
    /\ inputState.thrust = 1
    /\ glider.speed > 0

----------------------------------------------------------------------------
(* Pitch *)

----------------------------------------------------------------------------
(* Input and parameters across sessions *)

\* C28: a step of disposeEngine or buildCanvas (one that changes the engine,
\* the state of a build or the window's listeners) leaves the input record
\* and the parameter store as they are, so an axis that is non-zero when the
\* listeners are removed and the parameters last set are found unchanged by
\* the next session.
C28_SessionsKeepInputAndParams ==
    [][(engine' # engine \/ engines' # engines \/ builds' # builds
          \/ listeners' # listeners)
         => UNCHANGED <<inputState, sysParms>>]_vars

\* the second buildCanvas is under way after a session in which W was pressed
\* and the render loop switched on; no key listener is registered
C28_Witness ==
    /\ builds[1] = "done"
    /\ builds[2] = "loading"
    /\ engine = <<2>>
    /\ listeners = <<>>
    /\ inputState.thrust = 1
    /\ sysParms.renderLoop

----------------------------------------------------------------------------
(* Axis pairs *)

\* the sign of each key of a pair: Q, A and W are the positive keys
KeySign(code) == IF code \in {"KeyQ", "KeyA", "KeyW"} THEN 1 ELSE -1

\* the value of an axis after its last event, whatever else is held
AxisAfter(last) ==
    IF last = <<>> \/ last[1].type = "keyup" THEN 0 ELSE KeySign(last[1].code)

\* C26: each of yaw, pitch and thrust is 0 if the last event of its key pair
\* was a key-up (of either key, whichever keys are still held) and the sign
\* of the key if it was a key-down; events of the other pairs do not change
\* it, and roll is never written.
C26_AxisFollowsLastEvent ==
    /\ inputState.yaw = AxisAfter(keyLog.last["yaw"])
    /\ inputState.pitch = AxisAfter(keyLog.last["pitch"])
    /\ inputState.thrust = AxisAfter(keyLog.last["thrust"])
    /\ inputState.roll = 0

\* Q is still held, E was released after it was pressed: yaw is 0, while the
\* other two axes keep the signs of their held keys
C26_Witness ==
    /\ keyLog.down = {"KeyQ", "KeyD", "KeyW"}
    /\ keyLog.last["yaw"] = <<[type |-> "keyup", code |-> "KeyE"]>>
    /\ inputState = [thrust |-> 1, roll |-> 0, yaw |-> 0, pitch |-> -1]

----------------------------------------------------------------------------
(* Rotation of the objects (scene1.ts) *)

\* C21: the rotation of every object's mesh is the number of frames that
\* found the object active times its rotation.speed, modulo a full turn, and
\* a frame that finds rotation.active false leaves the mesh's rotation as it
\* is.
C21_RotationCountsActiveFrames ==
    /\ [](\A i \in 1 .. Len(planets) :
             planets[i].mesh =>
                planets[i].rotated
                  = (objLog[i].spins * planets[i].rotation.speed) % FullTurn)
    /\ [][frameNo' = frameNo + 1
            => \A i \in 1 .. Len(planets) :
                  ~planets[i].rotation.active
                     => planets'[i].rotated = planets[i].rotated]_vars

\* after two frames object 3 has turned twice, object 4 has come round to
\* where it began, and object 1, selected in the first frame, has turned once
C21_Witness ==
    /\ frameNo = 2
    /\ objLog[3].spins = 2 /\ planets[3].rotated = 6
    /\ objLog[4].spins = 2 /\ planets[4].rotated = 0
    /\ ~planets[1].rotation.active /\ objLog[1].spins = 1 /\ planets[1].rotated = 1

----------------------------------------------------------------------------
(* Distance-based selection (scene1.ts) *)

\* the callbacks es continue a strictly alternating sequence in which the
\* "on" of the indexes in open has had no "off" yet
RECURSIVE Alternates(_, _)
Alternates(open, es) ==
    IF es = <<>> THEN TRUE
    ELSE LET e == Head(es)
         IN  IF e.msg = "on"
             THEN open = {} /\ Alternates({e.id}, Tail(es))
             ELSE open = {e.id} /\ Alternates({}, Tail(es))

\* C27: the callbacks of the frames alternate "on", "off", "on", ...
\* beginning with "on", every "off" carries the index of the "on" before it,
\* and the rotation.active and orbit.active flags of an object are false
\* exactly while its "on" has had no "off" yet.
C27_OnOffAlternate ==
    /\ [][Alternates(pending, Callbacks(effects'))]_vars
    /\ [](\A i \in 1 .. Len(planets) :
             /\ planets[i].rotation.active = planets[i].orbit.active
             /\ planets[i].rotation.active <=> (i - 1) \notin pending)

----------------------------------------------------------------------------
(* Orbits (bab3.ts) *)

\* C22: an object whose orbit.angle is not 0 is moved by every frame: after N
\* frames its angle is the initial angle plus N * orbit.speed and its
\* position is radius * sin and radius * cos of the angle the last frame
\* began with, a point of the circle x^2 + z^2 = radius^2; an object whose
\* orbit.angle is 0 stays at the x and z it was created with.
C22_OrbitStepsOnCircle ==
    \A i \in 1 .. Len(planets) :
       planets[i].mesh =>
          LET o == planets[i].orbit
              n == objLog[i].moves
          IN  /\ o.angle = objLog[i].angle0 + n * o.speed
              /\ n = IF objLog[i].angle0 # 0 THEN frameNo ELSE 0
              /\ n > 0 =>
                   /\ planets[i].x = o.radius * sin(o.angle - o.speed)
                   /\ planets[i].z = o.radius * cos(o.angle - o.speed)
                   /\ planets[i].x * planets[i].x + planets[i].z * planets[i].z
                        = o.radius * o.radius
              /\ n = 0 => planets[i].x = planets[i].xpos /\ planets[i].z = 0

\* two frames: earth went from a half turn through a full turn and is at
\* x = 0, z = 14, mercury stands at a quarter turn, venus never moved
C22_Witness ==
    /\ frameNo = 2
    /\ planets[4].orbit.angle = 6 /\ planets[4].x = 0 /\ planets[4].z = 14
    /\ planets[2].orbit = [radius |-> 4, speed |-> 0, angle |-> 1, active |-> FALSE]
    /\ planets[2].x = 4 /\ planets[2].z = 0
    /\ planets[3].orbit.angle = 0 /\ planets[3].x = 7

----------------------------------------------------------------------------
(* Missing meshes *)

\* C23: a frame leaves a registry record that has no mesh as it is and raises
\* no callback for it and no error, while in the same frame every record that
\* has a mesh and is active is rotated; a frame leaves the glider, its
\* position and its thruster highlight as they are while the glider record
\* has no mesh.
C23_MissingMeshSkipped ==
    [][frameNo' = frameNo + 1
         => /\ ~thrown'
            /\ \A i \in 1 .. Len(planets) :
                  ~planets[i].mesh
                     => /\ planets'[i] = planets[i]
                        /\ \A k \in 1 .. Len(effects') : effects'[k].id # i - 1
            /\ objLog' # objLog
                 => \A i \in 1 .. Len(planets) :
                       (planets[i].mesh /\ planets[i].rotation.active)
                          => planets'[i].rotated
                               = (planets[i].rotated + planets[i].rotation.speed) % FullTurn
            /\ ~glider.mesh => UNCHANGED <<glider, gm, thrusterGlow>>]_vars

\* obj2 has no mesh and the glider none: after a frame of each callback with W
\* down and obj2 and obj3 near and in view, obj1 has turned, obj3 is selected,
\* obj2 and the glider are as they were
C23_Witness ==
    /\ frameNo = 2
    /\ ~planets[2].mesh /\ planets[2] = planetData(2)
    /\ planets[1].rotated = 1
    /\ popup = [visible |-> TRUE, popId |-> <<ObjName(3)>>]
    /\ Has(effects, CbEvent("on", 2))
    /\ ~glider.mesh /\ inputState.thrust = 1 /\ glider.speed = 0
    /\ gm = [x |-> Half(posX), z |-> Half(posZ), y |-> Tenths(posY)]

====
